---------------------------- MODULE Spec2Model ----------------------------
(***************************************************************************)
(* Model of the tool-calling chat front end in src/main.py: the per-session *)
(* tool registry (on_mcp_connect / on_mcp_disconnect), the tool invoker     *)
(* (call_mcp_tool), the schema adapter (format_mcp_tools_for_openai), the   *)
(* model gateway (call_gemini) and the orchestration loop (on_message).     *)
(*                                                                         *)
(* Text is modelled as a sequence of pieces.  A piece is either a single    *)
(* character (the characters of argument strings, and the quotes and       *)
(* backslashes json.dumps writes) or a verbatim fragment of an f-string    *)
(* that holds no character JSON escapes.  Python dictionaries are modelled  *)
(* as sequences of entries, in insertion order.  A handler is split into    *)
(* steps only where its code awaits.                                        *)
(***************************************************************************)
EXTENDS Integers, Sequences, FiniteSets, TLC

(***************************************************************************)
(* Bounds of the model.                                                     *)
(***************************************************************************)
\* Gateway queries (call_gemini invocations) per session.
MaxQueries == 2
\* Registry events recorded by the registry specification.
MaxEvents == 4

(***************************************************************************)
(* Input domains.                                                           *)
(***************************************************************************)
\* Connection names (connection.name); non-empty strings.
Connections == {"A", "B"}
\* Names of the tools the tool servers expose.
ToolNames == {"search", "lookup"}
\* Python's None.
None == "None"

Description == [search |-> "finds documents", lookup |-> "looks a record up"]
InputSchema == [search |-> "schema:query", lookup |-> "schema:key"]

\* One tool as session.list_tools() reports it.
RemoteTool(n) == [name |-> n, description |-> Description[n], inputSchema |-> InputSchema[n]]

\* The tool lists a server may report: names in the order listed.
ToolListings ==
    { <<>>, <<"search">>, <<"lookup">>, <<"search", "lookup">>, <<"lookup", "search">> }

\* result.tools of session.list_tools() for a listing.
ListToolsResult(l) == [i \in 1..Len(l) |-> RemoteTool(l[i])]

(***************************************************************************)
(* Sequences and text.                                                      *)
(***************************************************************************)
Min(S) == CHOOSE x \in S : \A y \in S : x <= y

\* needle occurs in hay as a contiguous run of pieces (Python's `in` on str).
Contains(hay, needle) ==
    \E i \in 0..(Len(hay) - Len(needle)) : SubSeq(hay, i + 1, i + Len(needle)) = needle

\* A flatten that puts the later lists first.
RECURSIVE flattenReversed(_)
flattenReversed(xss) ==
    IF xss = <<>> THEN <<>> ELSE flattenReversed(Tail(xss)) \o Head(xss)

\* flatten(xss): the elements of the lists of xss, in order.
RECURSIVE flatten(_)
flatten(xss) == IF xss = <<>> THEN <<>> ELSE Head(xss) \o flatten(Tail(xss))

(***************************************************************************)
(* json.loads, on the characters { } " : \ x 1.                             *)
(* A parse returns [end, val]: end is the position after the value (0 on a  *)
(* syntax error), val the value in prefix form.                             *)
(***************************************************************************)
JsonFail == [end |-> 0, val |-> <<>>]

RECURSIVE ScanNumber(_, _)
ScanNumber(s, i) ==
    IF i <= Len(s) /\ s[i] = "1" THEN ScanNumber(s, i + 1) ELSE i

\* s[i] is the first character after the opening quote.
RECURSIVE ScanString(_, _, _)
ScanString(s, i, acc) ==
    IF i > Len(s) THEN JsonFail
    ELSE IF s[i] = "\"" THEN [end |-> i + 1, val |-> <<"str">> \o acc]
    ELSE IF s[i] = "\\"
         THEN IF i + 1 <= Len(s) /\ s[i + 1] \in {"\"", "\\"}
              THEN ScanString(s, i + 2, Append(acc, s[i + 1]))
              ELSE JsonFail
    ELSE ScanString(s, i + 1, Append(acc, s[i]))

RECURSIVE ParseValue(_, _)
ParseValue(s, i) ==
    IF i > Len(s) THEN JsonFail
    ELSE IF s[i] = "1"
         THEN LET e == ScanNumber(s, i)
              IN  [end |-> e, val |-> <<"num">> \o SubSeq(s, i, e - 1)]
    ELSE IF s[i] = "\"" THEN ScanString(s, i + 1, <<>>)
    ELSE IF s[i] = "{"
         THEN IF i + 1 <= Len(s) /\ s[i + 1] = "}"
              THEN [end |-> i + 2, val |-> <<"obj">>]
              ELSE IF i + 1 <= Len(s) /\ s[i + 1] = "\""
                   THEN LET k == ScanString(s, i + 2, <<>>)
                        IN  IF k.end = 0 \/ k.end > Len(s) \/ s[k.end] # ":"
                            THEN JsonFail
                            ELSE LET v == ParseValue(s, k.end + 1)
                                 IN  IF v.end = 0 \/ v.end > Len(s) \/ s[v.end] # "}"
                                     THEN JsonFail
                                     ELSE [end |-> v.end + 1,
                                           val |-> <<"obj">> \o k.val \o v.val]
                   ELSE JsonFail
    ELSE JsonFail

\* json.loads(s): [ok, val]; ok is FALSE where json.JSONDecodeError is raised.
json_loads(s) ==
    LET p == ParseValue(s, 1)
    IN  IF p.end = Len(s) + 1 THEN [ok |-> TRUE, val |-> p.val]
        ELSE [ok |-> FALSE, val |-> <<>>]

(***************************************************************************)
(* json.dumps({"error": msg}): the message is written as a JSON string,     *)
(* quotes and backslashes escaped.                                          *)
(***************************************************************************)
json_escape_piece(p) ==
    IF p = "\"" THEN <<"\\", "\"">>
    ELSE IF p = "\\" THEN <<"\\", "\\">>
    ELSE <<p>>

RECURSIVE json_escape(_)
json_escape(t) ==
    IF t = <<>> THEN <<>> ELSE json_escape_piece(Head(t)) \o json_escape(Tail(t))

ErrorPrefix == <<"{", "\"", "error", "\"", ":", " ", "\"">>
ErrorSuffix == <<"\"", "}">>

json_dumps_error(msg) == ErrorPrefix \o json_escape(msg) \o ErrorSuffix

\* The text a JSON string body stands for (what a reader of the JSON decodes).
RECURSIVE json_unescape(_)
json_unescape(t) ==
    IF t = <<>> THEN <<>>
    ELSE IF Head(t) = "\\" /\ Len(t) >= 2
         THEN <<t[2]>> \o json_unescape(Tail(Tail(t)))
         ELSE <<Head(t)>> \o json_unescape(Tail(t))

\* The "error" member of an error-result string, decoded.
ErrorField(out) ==
    json_unescape(SubSeq(out, Len(ErrorPrefix) + 1, Len(out) - Len(ErrorSuffix)))

IsErrorResult(out) ==
    /\ Len(out) >= Len(ErrorPrefix) + Len(ErrorSuffix)
    /\ SubSeq(out, 1, Len(ErrorPrefix)) = ErrorPrefix
    /\ SubSeq(out, Len(out) - Len(ErrorSuffix) + 1, Len(out)) = ErrorSuffix

(***************************************************************************)
(* The error messages of call_mcp_tool and on_message.                      *)
(***************************************************************************)
\* An error message that leaves the argument text out.
InvalidJsonMsgNoArguments(tool_name, arguments) ==
    <<"Error: Invalid JSON arguments received for tool ", tool_name>>

InvalidJsonMsg(tool_name, arguments) ==
    <<"Error: Invalid JSON arguments received for tool ", tool_name, ": ">> \o arguments

NotFoundMsg(tool_name) ==
    <<"Tool '", tool_name, "' not found in any active MCP connection.">>

NoSessionMsg(conn) ==
    <<"Active MCP session for connection '", conn, "' not found.">>

ExecErrorMsg(tool_name, e) ==
    <<"Error executing MCP tool '", tool_name, "': ", e>>

UnsupportedMsg(type) == <<"Unsupported tool type: ", type>>

(***************************************************************************)
(* The registry: cl.user_session["mcp_tools"], a dict from connection name  *)
(* to the list of tool metadata, in insertion order.                        *)
(***************************************************************************)
DictKeys(d) == {d[i].key : i \in 1..Len(d)}

DictIndex(d, k) == CHOOSE i \in 1..Len(d) : d[i].key = k

\* d[k]
DictGet(d, k) == d[DictIndex(d, k)].value

\* A registry that re-inserts a key on assignment: the key moves last.
DictSetMoveToEnd(d, k, v) ==
    Append(SelectSeq(d, LAMBDA e : e.key # k), [key |-> k, value |-> v])

\* A registry that adds the new list to the list the key already has.
DictSetMerging(d, k, v) ==
    IF k \in DictKeys(d)
    THEN [d EXCEPT ![DictIndex(d, k)] = [key |-> k, value |-> @.value \o v]]
    ELSE Append(d, [key |-> k, value |-> v])

\* d[k] = v: an existing key keeps its place, a new key goes last.
DictSet(d, k, v) ==
    IF k \in DictKeys(d)
    THEN [d EXCEPT ![DictIndex(d, k)] = [key |-> k, value |-> v]]
    ELSE Append(d, [key |-> k, value |-> v])

\* A disconnect handler that forgets the deletion.
DictDelNothing(d, k) == d

\* del d[k]
DictDel(d, k) ==
    LET i == DictIndex(d, k)
    IN  SubSeq(d, 1, i - 1) \o SubSeq(d, i + 1, Len(d))

\* list(d.values())
DictValues(d) == [i \in 1..Len(d) |-> d[i].value]

\* tools_metadata of on_mcp_connect.
ToolsMetadata(conn, tools) ==
    [i \in 1..Len(tools) |->
        [name |-> tools[i].name,
         description |-> tools[i].description,
         input_schema |-> tools[i].inputSchema,
         mcp_connection_name |-> conn]]

\* A lookup that reads only the first tool of a connection.
ListsToolFirstOnly(tools_metadata, tool_name) ==
    tools_metadata # <<>> /\ tools_metadata[1].name = tool_name

\* any(tool_meta["name"] == tool_name for tool_meta in tools_metadata)
ListsTool(tools_metadata, tool_name) ==
    \E j \in 1..Len(tools_metadata) : tools_metadata[j].name = tool_name

\* The lookup loop without its `break`: the last connection listing the tool.
resolveLastMatch(d, tool_name) ==
    LET hits == {i \in 1..Len(d) : ListsTool(d[i].value, tool_name)}
    IN  IF hits = {} THEN None
        ELSE d[CHOOSE i \in hits : \A j \in hits : j <= i].key

\* The lookup loop leaving the loop variable as its result: with no match the
\* last connection looked at is taken.
resolveLoopVariable(d, tool_name) ==
    LET hits == {i \in 1..Len(d) : ListsTool(d[i].value, tool_name)}
    IN  IF hits # {} THEN d[Min(hits)].key
        ELSE IF d = <<>> THEN None ELSE d[Len(d)].key

\* The lookup loop of call_mcp_tool: the first connection, in the dict's
\* order, that lists the tool; None when no connection does.
resolve(d, tool_name) ==
    LET hits == {i \in 1..Len(d) : ListsTool(d[i].value, tool_name)}
    IN  IF hits = {} THEN None ELSE d[Min(hits)].key

\* Python's `not x` for a connection name or None.
Falsy(x) == x = None \/ x = ""


(***************************************************************************)
(* The tool invoker, up to its call of the remote tool (call_mcp_tool up    *)
(* to the await of mcp_session.call_tool): parse the arguments, find the    *)
(* connection, look the live session up.  No await lies between these, so   *)
(* they read one registry state.  stages lists the lookups performed.       *)
(***************************************************************************)
\* An invoker that takes the registry entry for a live session.
HasLiveSessionAlways(sessions, conn) == TRUE

\* cl.context.session.mcp_sessions.get(name) is a (session, exit stack) pair.
HasLiveSession(sessions, conn) == conn \in sessions

ErrorOutcome(kind, msg, input, conn, stages) ==
    [kind |-> kind, returned |-> json_dumps_error(msg), output |-> json_dumps_error(msg),
     is_error |-> TRUE, input |-> input, conn |-> conn, stages |-> stages]

\* An invoker that passes over the connections without a live session when
\* another connection listing the tool has one.
call_mcp_tool_fallback(tool_call, d, sessions) ==
    LET tool_name == tool_call.name
        parsed == json_loads(tool_call.arguments)
        live == SelectSeq(d, LAMBDA entry : HasLiveSession(sessions, entry.key))
        mcp_connection_name == IF resolve(live, tool_name) # None
                               THEN resolve(live, tool_name)
                               ELSE resolve(d, tool_name)
    IN  IF ~parsed.ok
        THEN ErrorOutcome("invalid_json", InvalidJsonMsg(tool_name, tool_call.arguments),
                          <<>>, None, <<"parse">>)
        ELSE IF Falsy(mcp_connection_name)
        THEN ErrorOutcome("not_found", NotFoundMsg(tool_name),
                          parsed.val, None, <<"parse", "resolve">>)
        ELSE IF ~HasLiveSession(sessions, mcp_connection_name)
        THEN ErrorOutcome("no_session", NoSessionMsg(mcp_connection_name),
                          parsed.val, mcp_connection_name, <<"parse", "resolve", "lookup">>)
        ELSE [kind |-> "forward", returned |-> <<>>, output |-> <<>>, is_error |-> FALSE,
              input |-> parsed.val, conn |-> mcp_connection_name,
              stages |-> <<"parse", "resolve", "lookup", "forward">>]

call_mcp_tool(tool_call, d, sessions) ==
    LET tool_name == tool_call.name
        parsed == json_loads(tool_call.arguments)
        mcp_connection_name == resolve(d, tool_name)
    IN  IF ~parsed.ok
        THEN ErrorOutcome("invalid_json", InvalidJsonMsg(tool_name, tool_call.arguments),
                          <<>>, None, <<"parse">>)
        ELSE IF Falsy(mcp_connection_name)
        THEN ErrorOutcome("not_found", NotFoundMsg(tool_name),
                          parsed.val, None, <<"parse", "resolve">>)
        ELSE IF ~HasLiveSession(sessions, mcp_connection_name)
        THEN ErrorOutcome("no_session", NoSessionMsg(mcp_connection_name),
                          parsed.val, mcp_connection_name, <<"parse", "resolve", "lookup">>)
        ELSE [kind |-> "forward", returned |-> <<>>, output |-> <<>>, is_error |-> FALSE,
              input |-> parsed.val, conn |-> mcp_connection_name,
              stages |-> <<"parse", "resolve", "lookup", "forward">>]

\* str(result) of the object mcp_session.call_tool returns.
str_result(r) == <<"meta=None content=[", r, "] isError=False">>

(***************************************************************************)
(* The schema adapter.                                                      *)
(***************************************************************************)
format_mcp_tools_for_openai(mcp_tools_by_connection) ==
    LET all_mcp_tools == flatten(DictValues(mcp_tools_by_connection))
    IN  [i \in 1..Len(all_mcp_tools) |->
            [type |-> "function",
             function |-> [name |-> all_mcp_tools[i].name,
                           description |-> all_mcp_tools[i].description,
                           parameters |-> all_mcp_tools[i].input_schema]]]

(***************************************************************************)
(* Messages of the conversation history.  A key a role does not carry is    *)
(* the empty list (tool_calls) or None (tool_call_id).                      *)
(***************************************************************************)
SystemPrompt == <<"You are a helpful assistant.">>

SystemMessage(prompt) ==
    [role |-> "system", content |-> prompt, tool_calls |-> <<>>, tool_call_id |-> None]

UserMessage(text) ==
    [role |-> "user", content |-> text, tool_calls |-> <<>>, tool_call_id |-> None]

\* assistant_response_message.model_dump(exclude_unset=True)
AssistantMessage(m) ==
    [role |-> "assistant", content |-> m.content, tool_calls |-> m.tool_calls,
     tool_call_id |-> None]

\* A tool message keyed by the tool's name.
ToolMessageKeyedByName(tool_call, content) ==
    [role |-> "tool", content |-> content, tool_calls |-> <<>>,
     tool_call_id |-> tool_call.name]

\* The tool message on_message builds for one tool call.
ToolMessage(tool_call, content) ==
    [role |-> "tool", content |-> content, tool_calls |-> <<>>,
     tool_call_id |-> tool_call.id]

(***************************************************************************)
(* What the model, the tool servers and the user may send.                  *)
(***************************************************************************)
ArgsOk == <<"{", "\"", "x", "\"", ":", "1", "}">>
ArgsEmptyObject == <<"{", "}">>
ArgsTruncated == <<"{", "\"", "x", "\"", ":">>
ArgsBare == <<"{", "x", "}">>

ToolCall(id, type, name, arguments) ==
    [id |-> id, type |-> type, name |-> name, arguments |-> arguments]

\* Assistant messages the gateway's non-streaming request may return.
ResponseText == [content |-> <<"hi">>, tool_calls |-> <<>>]
ResponsePair ==
    [content |-> <<>>,
     tool_calls |-> << ToolCall("c1", "function", "search", ArgsOk),
                       ToolCall("c2", "function", "lookup", ArgsTruncated) >>]
ResponseMixed ==
    [content |-> <<>>,
     tool_calls |-> << ToolCall("c1", "custom", "search", ArgsOk),
                       ToolCall("c2", "function", "ghost", ArgsEmptyObject),
                       ToolCall("c3", "function", "search", ArgsBare) >>]
Responses == {ResponseText, ResponsePair, ResponseMixed}

UserTexts == { <<"hello">> }
StreamTokens == {"hey"}
ToolResults == {"42"}
Exceptions == {"boom"}

\* Outcomes of session.list_tools().
ListToolsOutcomes ==
    {[ok |-> TRUE, tools |-> ListToolsResult(l), error |-> None] : l \in ToolListings}
    \cup {[ok |-> FALSE, tools |-> <<>>, error |-> e] : e \in Exceptions}

(***************************************************************************)
(* State.                                                                   *)
(***************************************************************************)
VARIABLES
    pc,                     \* where the session's handler stands
    chat_messages,          \* cl.user_session["chat_messages"]
    mcp_tools,              \* cl.user_session["mcp_tools"]
    mcp_sessions,           \* keys of cl.context.session.mcp_sessions
    api_args,               \* call_gemini: the arguments of both requests
    requests,               \* call_gemini: the requests issued by this call
    message_sent,           \* call_gemini: msg.send() was done
    streamed,               \* call_gemini: the latest token streamed to the UI
    tool_calls,             \* on_message: assistant_response_message.tool_calls
    tool_i,                 \* on_message: index of the tool call being handled
    tool_messages_for_llm,  \* on_message: tool messages built this round
    current_step,           \* call_mcp_tool: the UI step of the latest invocation
    in_flight,              \* the call forwarded to a tool server and awaited
    forwards,               \* per tool call of this round, the calls forwarded
    ui_out,                 \* error messages the latest step sent to the UI
    queries,                \* call_gemini invocations so far
    declared,               \* names of the tools declared by the turn's latest query
    declared_before,        \* while a query runs: what the turn's previous query declared
    events                  \* registry events, recorded by SpecRegistry only

turnVars == <<pc, chat_messages, api_args, requests, message_sent, streamed, tool_calls,
              tool_i, tool_messages_for_llm, current_step, in_flight, forwards, queries,
              declared, declared_before>>
vars == <<pc, chat_messages, mcp_tools, mcp_sessions, api_args, requests, message_sent,
          streamed, tool_calls, tool_i, tool_messages_for_llm, current_step, in_flight,
          forwards, ui_out, queries, declared, declared_before, events>>

NoArgs == [messages |-> <<>>, tools |-> <<>>, tool_choice |-> None, keys |-> {}]
NoStep == [name |-> None, kind |-> None, input |-> <<>>, output |-> <<>>,
           is_error |-> FALSE, returned |-> <<>>, arguments |-> <<>>, conn |-> None,
           stages |-> <<>>]
NoCall == [conn |-> None, name |-> None, arguments |-> <<>>]

\* Before on_chat_start has run.
Init ==
    /\ pc = "init"
    /\ chat_messages = <<>>
    /\ mcp_tools = <<>>
    /\ mcp_sessions = {}
    /\ api_args = NoArgs
    /\ requests = <<>>
    /\ message_sent = FALSE
    /\ streamed = <<>>
    /\ tool_calls = <<>>
    /\ tool_i = 0
    /\ tool_messages_for_llm = <<>>
    /\ current_step = NoStep
    /\ in_flight = NoCall
    /\ forwards = <<>>
    /\ ui_out = <<>>
    /\ queries = 0
    /\ declared = {}
    /\ declared_before = <<>>
    /\ events = <<>>

(***************************************************************************)
(* Session start and the registry's handlers.                               *)
(***************************************************************************)
start_chat ==
    /\ pc = "init"
    /\ chat_messages' = <<SystemMessage(SystemPrompt)>>
    /\ mcp_tools' = <<>>
    /\ pc' = "idle"
    /\ ui_out' = <<>>
    /\ UNCHANGED <<mcp_sessions, api_args, requests, message_sent, streamed, tool_calls,
                   tool_i, tool_messages_for_llm, current_step, in_flight, forwards,
                   queries, declared, declared_before>>

ListToolsFailedMsg(conn, e) ==
    <<"Failed to list tools from MCP server '", conn, "': ", e>>

\* A handler that registers an empty tool list when the listing failed.
on_mcp_connect_clearing(conn, listed) ==
    /\ pc # "init"
    /\ IF listed.ok
       THEN /\ mcp_tools' = DictSet(mcp_tools, conn, ToolsMetadata(conn, listed.tools))
            /\ ui_out' = <<>>
       ELSE /\ mcp_tools' = DictSet(mcp_tools, conn, <<>>)
            /\ ui_out' = <<ListToolsFailedMsg(conn, listed.error)>>
    /\ UNCHANGED mcp_sessions
    /\ UNCHANGED turnVars

\* on_mcp_connect from the return of `await session.list_tools()` on: nothing
\* of the session state is read or written before it.
on_mcp_connect(conn, listed) ==
    /\ pc # "init"
    /\ IF listed.ok
       THEN /\ mcp_tools' = DictSet(mcp_tools, conn, ToolsMetadata(conn, listed.tools))
            /\ ui_out' = <<>>
       ELSE /\ mcp_tools' = mcp_tools
            /\ ui_out' = <<ListToolsFailedMsg(conn, listed.error)>>
    /\ UNCHANGED mcp_sessions
    /\ UNCHANGED turnVars

on_mcp_disconnect(name) ==
    /\ pc # "init"
    /\ mcp_tools' = IF name \in DictKeys(mcp_tools) THEN DictDel(mcp_tools, name)
                    ELSE mcp_tools
    /\ ui_out' = <<>>
    /\ UNCHANGED mcp_sessions
    /\ UNCHANGED turnVars

\* The framework stores a connection's live session before it calls
\* on_mcp_connect and drops it after on_mcp_disconnect; both handlers may be
\* overtaken by the other, so the live sessions change on their own.
mcp_session_open(conn) ==
    /\ pc # "init"
    /\ conn \notin mcp_sessions
    /\ mcp_sessions' = mcp_sessions \cup {conn}
    /\ ui_out' = <<>>
    /\ UNCHANGED mcp_tools
    /\ UNCHANGED turnVars

mcp_session_close(conn) ==
    /\ pc # "init"
    /\ conn \in mcp_sessions
    /\ mcp_sessions' = mcp_sessions \ {conn}
    /\ ui_out' = <<>>
    /\ UNCHANGED mcp_tools
    /\ UNCHANGED turnVars

(***************************************************************************)
(* The model gateway: call_gemini.                                          *)
(***************************************************************************)
\* A second request that leaves the tool declarations out.
RequestToolsOnStreamOnly(args, stream) ==
    [stream |-> stream, messages |-> args.messages,
     tools |-> IF stream THEN args.tools ELSE <<>>,
     tool_choice |-> IF stream THEN args.tool_choice ELSE None,
     keys |-> IF stream THEN args.keys ELSE {"model", "messages", "temperature"}]

\* client.chat.completions.create(**{**api_args, "stream": stream}); keys are
\* the keyword arguments besides stream.
Request(args, stream) ==
    [stream |-> stream, messages |-> args.messages, tools |-> args.tools,
     tool_choice |-> args.tool_choice, keys |-> args.keys]

\* Arguments that declare the tools of the first connection only.
ApiArgsFirstConnection(history, registry) ==
    LET tools_for_openai == format_mcp_tools_for_openai(SubSeq(registry, 1, Min({1, Len(registry)})))
    IN  [messages |-> history, tools |-> tools_for_openai,
         tool_choice |-> IF tools_for_openai # <<>> THEN "auto" ELSE None,
         keys |-> {"model", "messages", "temperature"}
                  \cup (IF tools_for_openai # <<>> THEN {"tools", "tool_choice"} ELSE {})]

\* api_args of call_gemini: the keys tools and tool_choice are set only when
\* the registry holds a tool (tools is the empty list while the key is unset).
ApiArgs(history, registry) ==
    LET tools_for_openai == format_mcp_tools_for_openai(registry)
    IN  [messages |-> history, tools |-> tools_for_openai,
         tool_choice |-> IF tools_for_openai # <<>> THEN "auto" ELSE None,
         keys |-> {"model", "messages", "temperature"}
                  \cup (IF tools_for_openai # <<>> THEN {"tools", "tool_choice"} ELSE {})]

GeminiErrorMsg(e) == <<"Error calling Gemini API: ", e>>
AssistantFailedMsg == <<"Assistant failed to generate a response.">>

\* on_message: the user's message is appended and the loop entered.
on_message(text) ==
    /\ pc = "idle"
    /\ queries < MaxQueries
    /\ chat_messages' = Append(chat_messages, UserMessage(text))
    /\ pc' = "query"
    /\ ui_out' = <<>>
    /\ UNCHANGED <<mcp_tools, mcp_sessions, api_args, requests, message_sent, streamed,
                   tool_calls, tool_i, tool_messages_for_llm, current_step, in_flight,
                   forwards, queries, declared, declared_before>>

\* call_gemini up to the await of the streaming request.  What the previous
\* round left in on_message's locals and in the UI step is dead by now.
call_gemini_request ==
    /\ pc = "query"
    /\ queries < MaxQueries
    /\ api_args' = ApiArgs(chat_messages, mcp_tools)
    /\ requests' = <<Request(api_args', TRUE)>>
    /\ declared' = {api_args'.tools[i].function.name : i \in 1..Len(api_args'.tools)}
    /\ declared_before' = IF chat_messages[Len(chat_messages)].role = "tool" THEN <<declared>> ELSE <<>>
    /\ message_sent' = FALSE
    /\ streamed' = <<>>
    /\ queries' = queries + 1
    /\ pc' = "stream"
    /\ ui_out' = <<>>
    /\ tool_calls' = <<>>
    /\ tool_i' = 0
    /\ tool_messages_for_llm' = <<>>
    /\ forwards' = <<>>
    /\ current_step' = NoStep
    /\ UNCHANGED <<chat_messages, mcp_tools, mcp_sessions, in_flight>>

\* A chunk whose delta carries text.
stream_delta(token) ==
    /\ pc = "stream"
    /\ message_sent' = TRUE
    /\ streamed' = <<token>>
    /\ ui_out' = <<>>
    /\ UNCHANGED <<pc, chat_messages, mcp_tools, mcp_sessions, api_args, requests,
                   tool_calls, tool_i, tool_messages_for_llm, current_step, in_flight,
                   forwards, queries, declared, declared_before>>

\* The stream is exhausted: the non-streaming request is issued.
stream_end ==
    /\ pc = "stream"
    /\ requests' = Append(requests, Request(api_args, FALSE))
    /\ pc' = "final"
    /\ ui_out' = <<>>
    /\ UNCHANGED <<chat_messages, mcp_tools, mcp_sessions, api_args, message_sent,
                   streamed, tool_calls, tool_i, tool_messages_for_llm, current_step,
                   in_flight, forwards, queries, declared, declared_before>>

\* call_gemini returns: its locals are gone.
CallGeminiReturns ==
    /\ api_args' = NoArgs
    /\ requests' = <<>>
    /\ message_sent' = FALSE
    /\ streamed' = <<>>

\* The failure path with `chat_messages.pop()` in it: the last message of
\* the history is taken back.
GatewayFailureDropsLast(e) ==
    /\ ui_out' = (IF message_sent THEN <<>> ELSE <<GeminiErrorMsg(e)>>)
                 \o <<AssistantFailedMsg>>
    /\ pc' = "idle"
    /\ CallGeminiReturns
    /\ declared' = {}
    /\ declared_before' = <<>>
    /\ chat_messages' = SubSeq(chat_messages, 1, Len(chat_messages) - 1)
    /\ UNCHANGED <<mcp_tools, mcp_sessions, tool_calls, tool_i,
                   tool_messages_for_llm, current_step, in_flight, forwards, queries>>

\* The except branch of call_gemini, then the `return` of on_message.
GatewayFailure(e) ==
    /\ ui_out' = (IF message_sent THEN <<>> ELSE <<GeminiErrorMsg(e)>>)
                 \o <<AssistantFailedMsg>>
    /\ pc' = "idle"
    /\ CallGeminiReturns
    /\ declared' = {}
    /\ declared_before' = <<>>
    /\ UNCHANGED <<chat_messages, mcp_tools, mcp_sessions, tool_calls, tool_i,
                   tool_messages_for_llm, current_step, in_flight, forwards, queries>>

stream_fail(e) == pc = "stream" /\ GatewayFailure(e)

final_fail(e) == pc = "final" /\ GatewayFailure(e)

(***************************************************************************)
(* The orchestration loop: on_message from the return of call_gemini on.    *)
(***************************************************************************)
\* tool_messages_for_llm.insert(0, message)
PrependToolMessage(msgs, msg) == <<msg>> \o msgs

\* tool_messages_for_llm.append(message)
AppendToolMessage(msgs, msg) == Append(msgs, msg)

\* chat_messages = tool_messages_for_llm: the round's messages replace the
\* history.
ExtendHistoryReplacing(history, msgs) == msgs

\* chat_messages.extend(tool_messages_for_llm)
ExtendHistory(history, msgs) == history \o msgs

\* A loop that takes every assistant message for the final answer.
NoToolCallsIgnored(m) == TRUE

\* `if not assistant_response_message.tool_calls`
NoToolCalls(m) == m.tool_calls = <<>>

final_response(m) ==
    /\ pc = "final"
    /\ chat_messages' = Append(chat_messages, AssistantMessage(m))
    /\ tool_calls' = m.tool_calls
    /\ tool_messages_for_llm' = <<>>
    /\ forwards' = [i \in 1..Len(m.tool_calls) |-> 0]
    /\ IF NoToolCalls(m)
       THEN pc' = "idle" /\ tool_i' = 0 /\ declared' = {}
       ELSE pc' = "tools" /\ tool_i' = 1 /\ declared' = declared
    /\ declared_before' = <<>>
    /\ ui_out' = <<>>
    /\ CallGeminiReturns
    /\ UNCHANGED <<mcp_tools, mcp_sessions, current_step, in_flight, queries>>

\* A loop that queries again as soon as one tool message is built.
FinishToolCallEarly(msg) ==
    LET msgs == AppendToolMessage(tool_messages_for_llm, msg)
    IN  /\ tool_messages_for_llm' = msgs
        /\ chat_messages' = ExtendHistory(chat_messages, msgs)
        /\ pc' = "query"
        /\ tool_i' = tool_i

\* A loop capped at one iteration: after the round's last tool message the
\* turn is over.
FinishToolCallCapped(msg) ==
    LET msgs == AppendToolMessage(tool_messages_for_llm, msg)
    IN  /\ tool_messages_for_llm' = msgs
        /\ IF tool_i = Len(tool_calls)
           THEN /\ chat_messages' = ExtendHistory(chat_messages, msgs)
                /\ pc' = "idle"
                /\ tool_i' = tool_i
           ELSE /\ chat_messages' = chat_messages
                /\ pc' = "tools"
                /\ tool_i' = tool_i + 1

\* The tool message of the call in hand is built; after the last call of the
\* round the round's messages go to the history and the loop queries again.
FinishToolCall(msg) ==
    LET msgs == AppendToolMessage(tool_messages_for_llm, msg)
    IN  /\ tool_messages_for_llm' = msgs
        /\ IF tool_i = Len(tool_calls)
           THEN /\ chat_messages' = ExtendHistory(chat_messages, msgs)
                /\ pc' = "query"
                /\ tool_i' = tool_i
           ELSE /\ chat_messages' = chat_messages
                /\ pc' = "tools"
                /\ tool_i' = tool_i + 1

StepOf(tool_call, o) ==
    [name |-> tool_call.name, kind |-> o.kind, input |-> o.input, output |-> o.output,
     is_error |-> o.is_error, returned |-> o.returned,
     arguments |-> tool_call.arguments, conn |-> o.conn, stages |-> o.stages]

\* A tool call of type "function": call_mcp_tool runs up to its return of an
\* error result or to the await of the forwarded call.
tool_call_function ==
    /\ pc = "tools"
    /\ tool_calls[tool_i].type = "function"
    /\ LET tool_call == tool_calls[tool_i]
           o == call_mcp_tool(tool_call, mcp_tools, mcp_sessions)
       IN  /\ current_step' = StepOf(tool_call, o)
           /\ IF o.kind = "forward"
              THEN /\ in_flight' = [conn |-> o.conn, name |-> tool_call.name,
                                    arguments |-> o.input]
                   /\ forwards' = [forwards EXCEPT ![tool_i] = @ + 1]
                   /\ pc' = "calling"
                   /\ UNCHANGED <<chat_messages, tool_i, tool_messages_for_llm>>
              ELSE /\ FinishToolCall(ToolMessage(tool_call, o.returned))
                   /\ UNCHANGED <<in_flight, forwards>>
    /\ ui_out' = <<>>
    /\ UNCHANGED <<mcp_tools, mcp_sessions, api_args, requests, message_sent, streamed,
                   tool_calls, queries, declared, declared_before>>

\* mcp_session.call_tool returns.
call_tool_return(result) ==
    /\ pc = "calling"
    /\ current_step' = [current_step EXCEPT !.kind = "ok",
                                            !.output = str_result(result),
                                            !.returned = str_result(result)]
    /\ in_flight' = NoCall
    /\ FinishToolCall(ToolMessage(tool_calls[tool_i], str_result(result)))
    /\ ui_out' = <<>>
    /\ UNCHANGED <<mcp_tools, mcp_sessions, api_args, requests, message_sent, streamed,
                   tool_calls, forwards, queries, declared, declared_before>>

\* call_mcp_tool without its `except Exception`: the exception leaves
\* on_message and the turn ends.
call_tool_raise_unhandled(e) ==
    /\ pc = "calling"
    /\ current_step' = [current_step EXCEPT !.kind = "exec_error", !.is_error = TRUE]
    /\ in_flight' = NoCall
    /\ pc' = "idle"
    /\ ui_out' = <<>>
    /\ declared' = {}
    /\ declared_before' = <<>>
    /\ UNCHANGED <<chat_messages, mcp_tools, mcp_sessions, api_args, requests,
                   message_sent, streamed, tool_calls, tool_i, tool_messages_for_llm,
                   forwards, queries>>

\* An invoker that forwards the call again when it raised.
call_tool_raise_retried(e) ==
    /\ pc = "calling"
    /\ forwards' = [forwards EXCEPT ![tool_i] = @ + 1]
    /\ ui_out' = <<>>
    /\ UNCHANGED <<pc, chat_messages, mcp_tools, mcp_sessions, api_args, requests,
                   message_sent, streamed, tool_calls, tool_i, tool_messages_for_llm,
                   current_step, in_flight, queries, declared, declared_before>>

\* mcp_session.call_tool raises.
call_tool_raise(e) ==
    /\ pc = "calling"
    /\ LET out == json_dumps_error(ExecErrorMsg(current_step.name, e))
       IN  /\ current_step' = [current_step EXCEPT !.kind = "exec_error",
                                                   !.output = out,
                                                   !.returned = out,
                                                   !.is_error = TRUE]
           /\ FinishToolCall(ToolMessage(tool_calls[tool_i], out))
    /\ in_flight' = NoCall
    /\ ui_out' = <<>>
    /\ UNCHANGED <<mcp_tools, mcp_sessions, api_args, requests, message_sent, streamed,
                   tool_calls, forwards, queries, declared, declared_before>>

\* A loop that only warns about a tool call of another type: no tool message
\* is built for it.
tool_call_unsupported_warned ==
    /\ pc = "tools"
    /\ tool_calls[tool_i].type # "function"
    /\ IF tool_i = Len(tool_calls)
       THEN /\ chat_messages' = ExtendHistory(chat_messages, tool_messages_for_llm)
            /\ pc' = "query"
            /\ tool_i' = tool_i
       ELSE /\ chat_messages' = chat_messages
            /\ pc' = "tools"
            /\ tool_i' = tool_i + 1
    /\ ui_out' = <<>>
    /\ UNCHANGED <<mcp_tools, mcp_sessions, api_args, requests, message_sent, streamed,
                   tool_calls, tool_messages_for_llm, current_step, in_flight, forwards,
                   queries, declared, declared_before>>

\* A tool call of another type: nothing is invoked.
tool_call_unsupported ==
    /\ pc = "tools"
    /\ tool_calls[tool_i].type # "function"
    /\ FinishToolCall(ToolMessage(tool_calls[tool_i],
                                  json_dumps_error(UnsupportedMsg(tool_calls[tool_i].type))))
    /\ ui_out' = <<>>
    /\ UNCHANGED <<mcp_tools, mcp_sessions, api_args, requests, message_sent, streamed,
                   tool_calls, current_step, in_flight, forwards, queries, declared, declared_before>>

(***************************************************************************)
(* Specifications.                                                          *)
(***************************************************************************)
\* The tools each server exposes while a session's turns are followed: both
\* list "search", one lists "lookup" as well.  (SpecRegistry lets every
\* server report every list of ToolListings.)
ServerTools == [A |-> <<"search", "lookup">>, B |-> <<"search">>]

Listed(l) == [ok |-> TRUE, tools |-> ListToolsResult(l), error |-> None]

\* One session: its start, its turns, and the registry events between their
\* steps.
Next ==
    \/ start_chat /\ UNCHANGED events
    \/ \E c \in Connections :
          on_mcp_connect(c, Listed(ServerTools[c])) /\ UNCHANGED events
    \/ \E c \in Connections : on_mcp_disconnect(c) /\ UNCHANGED events
    \/ \E c \in Connections : mcp_session_open(c) /\ UNCHANGED events
    \/ \E c \in Connections : mcp_session_close(c) /\ UNCHANGED events
    \/ \E t \in UserTexts : on_message(t) /\ UNCHANGED events
    \/ call_gemini_request /\ UNCHANGED events
    \/ \E t \in StreamTokens : stream_delta(t) /\ UNCHANGED events
    \/ stream_end /\ UNCHANGED events
    \/ \E e \in Exceptions : stream_fail(e) /\ UNCHANGED events
    \/ \E e \in Exceptions : final_fail(e) /\ UNCHANGED events
    \/ \E m \in Responses : final_response(m) /\ UNCHANGED events
    \/ tool_call_function /\ UNCHANGED events
    \/ tool_call_unsupported /\ UNCHANGED events
    \/ \E r \in ToolResults : call_tool_return(r) /\ UNCHANGED events
    \/ \E e \in Exceptions : call_tool_raise(e) /\ UNCHANGED events

Spec == Init /\ [][Next]_vars

\* The steps of a turn that the code takes by itself once what it awaits has
\* returned or raised: every request to the gateway and every forwarded tool
\* call is answered, and a stream ends.
TurnProgress ==
    /\ \/ call_gemini_request
       \/ stream_end
       \/ \E e \in Exceptions : stream_fail(e)
       \/ \E e \in Exceptions : final_fail(e)
       \/ \E m \in Responses : final_response(m)
       \/ tool_call_function
       \/ tool_call_unsupported
       \/ \E r \in ToolResults : call_tool_return(r)
       \/ \E e \in Exceptions : call_tool_raise(e)
    /\ UNCHANGED events

\* One session with one tool server, which connects and stays.
OneServerNext ==
    \/ start_chat /\ UNCHANGED events
    \/ on_mcp_connect("A", Listed(ServerTools["A"])) /\ UNCHANGED events
    \/ mcp_session_open("A") /\ UNCHANGED events
    \/ \E t \in UserTexts : on_message(t) /\ UNCHANGED events
    \/ call_gemini_request /\ UNCHANGED events
    \/ \E t \in StreamTokens : stream_delta(t) /\ UNCHANGED events
    \/ stream_end /\ UNCHANGED events
    \/ \E e \in Exceptions : stream_fail(e) /\ UNCHANGED events
    \/ \E e \in Exceptions : final_fail(e) /\ UNCHANGED events
    \/ \E m \in Responses : final_response(m) /\ UNCHANGED events
    \/ tool_call_function /\ UNCHANGED events
    \/ tool_call_unsupported /\ UNCHANGED events
    \/ \E r \in ToolResults : call_tool_return(r) /\ UNCHANGED events
    \/ \E e \in Exceptions : call_tool_raise(e) /\ UNCHANGED events

\* That session with every awaited operation of a turn completing.
SpecFair == Init /\ [][OneServerNext]_vars /\ WF_vars(TurnProgress)

\* The registry alone, every register and unregister event recorded.
RegisterEvent(conn, listed) ==
    [op |-> "register", conn |-> conn,
     names |-> [i \in 1..Len(listed.tools) |-> listed.tools[i].name]]

UnregisterEvent(conn) == [op |-> "unregister", conn |-> conn, names |-> <<>>]

RegistryNext ==
    \/ start_chat /\ UNCHANGED events
    \/ \E c \in Connections, o \in ListToolsOutcomes :
          /\ Len(events) < MaxEvents
          /\ on_mcp_connect(c, o)
          /\ events' = IF o.ok THEN Append(events, RegisterEvent(c, o)) ELSE events
    \/ \E c \in Connections :
          /\ Len(events) < MaxEvents
          /\ on_mcp_disconnect(c)
          /\ events' = Append(events, UnregisterEvent(c))

SpecRegistry == Init /\ [][RegistryNext]_vars

(***************************************************************************)
(* Definitions the properties share.                                        *)
(***************************************************************************)
Max(S) == CHOOSE x \in S : \A y \in S : y <= x

Last(q) == q[Len(q)]

\* Every name a tool call may carry.
AllNames == ToolNames \cup {"ghost"}

ArgTexts == {ArgsOk, ArgsEmptyObject, ArgsTruncated, ArgsBare}

\* The connections whose current tool list holds a tool of that name.
Owners(d, n) ==
    {d[i].key : i \in {k \in 1..Len(d) : \E j \in 1..Len(d[k].value) :
                                              d[k].value[j].name = n}}

\* A function call of that tool with well-formed arguments.
ProbeCall(n) == ToolCall("probe", "function", n, ArgsOk)

IsToolMessageFor(m, tool_call) ==
    m.role = "tool" /\ m.tool_call_id = tool_call.id

(***************************************************************************)
(* C1: in every reachable history every tool message answers a tool call of *)
(* the nearest assistant message before it, and only tool messages lie      *)
(* between the two.                                                         *)
(***************************************************************************)
C1_ToolMessagesAnswerCalls ==
    \A k \in 1..Len(chat_messages) :
        chat_messages[k].role = "tool" =>
            \E a \in 1..(k - 1) :
                /\ chat_messages[a].role = "assistant"
                /\ \A j \in (a + 1)..(k - 1) : chat_messages[j].role = "tool"
                /\ \E c \in 1..Len(chat_messages[a].tool_calls) :
                      chat_messages[a].tool_calls[c].id = chat_messages[k].tool_call_id

C1_Witness ==
    /\ pc = "query"
    /\ Len(chat_messages) >= 6
    /\ Last(chat_messages).role = "tool"
    /\ Last(chat_messages).tool_call_id = "c3"

(***************************************************************************)
(* C2: outside the handling of a round's tool calls, every assistant        *)
(* message with tool calls c1..cn is directly followed by exactly n tool    *)
(* messages, the i-th keyed by ci; while a round's calls are handled, its   *)
(* assistant message is the last of the history.                            *)
(***************************************************************************)
AnsweredInOrder(a) ==
    LET calls == chat_messages[a].tool_calls
        n == Len(calls)
    IN  /\ a + n <= Len(chat_messages)
        /\ \A i \in 1..n : IsToolMessageFor(chat_messages[a + i], calls[i])
        /\ a + n + 1 <= Len(chat_messages) => chat_messages[a + n + 1].role # "tool"

C2_ResultsInCallOrder ==
    \A a \in 1..Len(chat_messages) :
        (chat_messages[a].role = "assistant" /\ chat_messages[a].tool_calls # <<>>) =>
            IF pc \in {"tools", "calling"} /\ a = Len(chat_messages)
            THEN tool_calls = chat_messages[a].tool_calls
            ELSE AnsweredInOrder(a)

C2_Witness ==
    /\ pc = "query"
    /\ \E a \in 1..Len(chat_messages) :
          /\ chat_messages[a].role = "assistant"
          /\ Len(chat_messages[a].tool_calls) = 3
          /\ a + 3 = Len(chat_messages)
          /\ chat_messages[a + 1].tool_call_id = "c1"
          /\ chat_messages[a + 3].tool_call_id = "c3"

(***************************************************************************)
(* C3: a tool name listed under exactly one connection resolves to that     *)
(* connection, whatever register and unregister events came before.         *)
(***************************************************************************)
C3_SoleOwnerResolved ==
    \A n \in AllNames : \A c \in Connections :
        Owners(mcp_tools, n) = {c} =>
            /\ resolve(mcp_tools, n) = c
            /\ call_mcp_tool(ProbeCall(n), mcp_tools, Connections).kind = "forward"
            /\ call_mcp_tool(ProbeCall(n), mcp_tools, Connections).conn = c

C3_Witness ==
    /\ Len(mcp_tools) = 2
    /\ \E i \in 1..Len(events) : events[i].op = "unregister"
    /\ Owners(mcp_tools, "lookup") = {mcp_tools[2].key}
    /\ Len(mcp_tools[2].value) = 2
    /\ mcp_tools[2].value[2].name = "lookup"

(***************************************************************************)
(* C4: from the session's start, A registers "search", then B registers     *)
(* "search": "search" resolves to A, and still does after B unregisters and *)
(* after B registers "search" again.                                        *)
(***************************************************************************)
Registers(e, c, n) ==
    e.op = "register" /\ e.conn = c /\ \E j \in 1..Len(e.names) : e.names[j] = n

Scenario4(a, b, len) ==
    /\ Len(events) = len
    /\ Registers(events[1], a, "search")
    /\ Registers(events[2], b, "search")
    /\ len >= 3 => events[3] = UnregisterEvent(b)
    /\ len >= 4 => Registers(events[4], b, "search")

C4_FirstSearchKeepsWinning ==
    \A a \in Connections : \A b \in Connections \ {a} : \A len \in 2..4 :
        (Len(events) = len /\ Scenario4(a, b, len)) =>
            /\ resolve(mcp_tools, "search") = a
            /\ call_mcp_tool(ProbeCall("search"), mcp_tools, Connections).conn = a

C4_Witness ==
    /\ Len(events) = 4
    /\ Scenario4("A", "B", 4)
    /\ Owners(mcp_tools, "search") = {"A", "B"}

(***************************************************************************)
(* C5: a tool name listed under two connections resolves to the one whose   *)
(* registry entry is the older: the one registered first, counting for each *)
(* connection its first registration since it last unregistered (a          *)
(* re-registration without an unregister does not make it younger).         *)
(***************************************************************************)
LastUnregister(c) ==
    LET S == {i \in 1..Len(events) : events[i] = UnregisterEvent(c)}
    IN  IF S = {} THEN 0 ELSE Max(S)

\* The event that created c's current registry entry; 0 when there is none.
EntryTime(c) ==
    LET S == {i \in (LastUnregister(c) + 1)..Len(events) :
                 events[i].op = "register" /\ events[i].conn = c}
    IN  IF S = {} THEN 0 ELSE Min(S)

C5_FirstRegisteredWins ==
    \A n \in AllNames :
        LET own == Owners(mcp_tools, n)
        IN  Cardinality(own) = 2 =>
                \E c \in own :
                    /\ \A o \in own : EntryTime(c) > 0 /\ EntryTime(c) <= EntryTime(o)
                    /\ resolve(mcp_tools, n) = c
                    /\ call_mcp_tool(ProbeCall(n), mcp_tools, Connections).conn = c

\* "search" is listed twice; the connection it resolves to registered first
\* without it, and listed it only when it registered again, after the other.
C5_Witness ==
    /\ Len(events) = 3
    /\ Owners(mcp_tools, "search") = {"A", "B"}
    /\ events[1] = [op |-> "register", conn |-> "A", names |-> <<"lookup">>]
    /\ Registers(events[2], "B", "search")
    /\ Registers(events[3], "A", "search")
    /\ resolve(mcp_tools, "search") = "A"

(***************************************************************************)
(* C6: when on_mcp_disconnect(c) removes the only connection listing a tool *)
(* name, the name resolves to no connection and call_mcp_tool returns the   *)
(* not-found error result; and a call of a name no connection lists is      *)
(* answered with that result and forwarded nowhere.                         *)
(***************************************************************************)
NotFoundOutcome(o, n) ==
    /\ o.kind = "not_found"
    /\ o.returned = json_dumps_error(NotFoundMsg(n))
    /\ o.is_error
    /\ o.stages = <<"parse", "resolve">>

C6_UnregisteredToolNotFound ==
    [][ /\ \A c \in Connections : \A n \in AllNames :
              (Owners(mcp_tools, n) = {c} /\ on_mcp_disconnect(c)) =>
                  /\ resolve(mcp_tools', n) = None
                  /\ NotFoundOutcome(call_mcp_tool(ProbeCall(n), mcp_tools', mcp_sessions'), n)
        /\ (/\ tool_call_function
            /\ json_loads(tool_calls[tool_i].arguments).ok
            /\ Owners(mcp_tools, tool_calls[tool_i].name) = {}) =>
                  /\ current_step'.kind = "not_found"
                  /\ in_flight' = NoCall
                  /\ forwards' = forwards
                  /\ pc' # "calling"
      ]_vars

\* "search" was declared to the model by the round's query, its connections
\* have unregistered since, and the call of it was answered "not found".
C6_Witness ==
    /\ pc = "tools"
    /\ current_step.kind = "not_found"
    /\ current_step.name = "search"
    /\ "search" \in declared
    /\ mcp_tools = <<>>
    /\ Last(tool_messages_for_llm).content = json_dumps_error(NotFoundMsg("search"))
    /\ forwards[1] = 0

(***************************************************************************)
(* C7: a tool call that fails (arguments that do not parse, no connection   *)
(* listing the tool, no live session, the remote call raising) yields an    *)
(* error-result string that becomes the content of the call's tool message; *)
(* the round's next call is handled next, and after the last call the       *)
(* round's messages are appended and the loop is back at the query.         *)
(***************************************************************************)
FailureKinds == {"invalid_json", "not_found", "no_session", "exec_error"}

C7_ToolFailuresFeedBack ==
    [][ ((tool_call_function /\ current_step'.is_error)
            \/ \E e \in Exceptions : call_tool_raise(e)) =>
           LET tool_call == tool_calls[tool_i]
               msgs == Append(tool_messages_for_llm,
                              [role |-> "tool", content |-> current_step'.returned,
                               tool_calls |-> <<>>, tool_call_id |-> tool_call.id])
           IN  /\ current_step'.kind \in FailureKinds
               /\ IsErrorResult(current_step'.returned)
               /\ tool_messages_for_llm' = msgs
               /\ IF tool_i < Len(tool_calls)
                  THEN pc' = "tools" /\ tool_i' = tool_i + 1
                       /\ chat_messages' = chat_messages
                  ELSE pc' = "query" /\ chat_messages' = chat_messages \o msgs
      ]_vars

\* The remote call of c1 raised, the arguments of c2 did not parse, both
\* errors are in the history and the next query is under way.
C7_Witness ==
    /\ pc = "stream"
    /\ queries = 2
    /\ Len(chat_messages) >= 2
    /\ chat_messages[Len(chat_messages) - 1].content
          = json_dumps_error(ExecErrorMsg("search", "boom"))
    /\ Last(chat_messages).content
          = json_dumps_error(InvalidJsonMsg("lookup", ArgsTruncated))
    /\ Last(api_args.messages) = Last(chat_messages)

(***************************************************************************)
(* C8 (as amended): for arguments that are not valid JSON call_mcp_tool     *)
(* returns, in every registry state, an error result whose decoded "error"  *)
(* member contains the raw argument text, marks the step as an error, and   *)
(* goes no further than the parse: no resolution, no session lookup, no     *)
(* forwarded call.                                                          *)
(***************************************************************************)
InvalidJsonOutcome(o, a) ==
    /\ o.kind = "invalid_json"
    /\ IsErrorResult(o.returned)
    /\ Contains(ErrorField(o.returned), a)
    /\ o.output = o.returned
    /\ o.is_error
    /\ o.stages = <<"parse">>

C8_InvalidJsonErrorResult ==
    /\ {a \in ArgTexts : ~json_loads(a).ok} = {ArgsTruncated, ArgsBare}
    /\ \A n \in AllNames : \A a \in {ArgsTruncated, ArgsBare} :
          InvalidJsonOutcome(
              call_mcp_tool(ToolCall("probe", "function", n, a), mcp_tools, mcp_sessions), a)
    /\ current_step.kind = "invalid_json" =>
          /\ ~json_loads(current_step.arguments).ok
          /\ InvalidJsonOutcome(current_step, current_step.arguments)
          /\ in_flight = NoCall
          /\ pc # "calling"

\* C8 as stated: the returned string holds the raw argument text itself.
C8_Original ==
    current_step.kind = "invalid_json" =>
        Contains(current_step.returned, current_step.arguments)

\* The arguments of the call of "lookup" did not parse while a connection
\* with a live session listed "lookup".
C8_Witness ==
    /\ current_step.kind = "invalid_json"
    /\ current_step.name = "lookup"
    /\ current_step.arguments = ArgsTruncated
    /\ \E c \in Owners(mcp_tools, "lookup") : c \in mcp_sessions
    /\ Last(tool_messages_for_llm).content = current_step.returned
    /\ forwards[2] = 0

(***************************************************************************)
(* C9: a function call, with arguments that parse, of a name no connection  *)
(* lists at the time of the call gets a tool message whose content is the   *)
(* error result mentioning "not found"; nothing is forwarded; the loop goes *)
(* on with the round's next call or back to the query.                      *)
(***************************************************************************)
NotFoundFragment == "' not found in any active MCP connection."

C9_UnknownToolNotFound ==
    [][ (/\ tool_call_function
         /\ json_loads(tool_calls[tool_i].arguments).ok
         /\ \A c \in DictKeys(mcp_tools) :
               \A j \in 1..Len(DictGet(mcp_tools, c)) :
                   DictGet(mcp_tools, c)[j].name # tool_calls[tool_i].name) =>
           LET m == Last(tool_messages_for_llm')
           IN  /\ Len(tool_messages_for_llm') = Len(tool_messages_for_llm) + 1
               /\ IsToolMessageFor(m, tool_calls[tool_i])
               /\ IsErrorResult(m.content)
               /\ Contains(ErrorField(m.content), <<NotFoundFragment>>)
               /\ in_flight' = NoCall
               /\ forwards' = forwards
               /\ IF tool_i < Len(tool_calls)
                  THEN pc' = "tools" /\ tool_i' = tool_i + 1
                  ELSE pc' = "query"
                       /\ chat_messages' = chat_messages \o tool_messages_for_llm'
      ]_vars

\* The round's query declared "search"; by the time of the call no
\* connection listed it; the round is over and the loop is back at the query.
C9_Witness ==
    /\ pc = "query"
    /\ "search" \in declared
    /\ Len(tool_messages_for_llm) = 2
    /\ tool_messages_for_llm[1].content = json_dumps_error(NotFoundMsg("search"))
    /\ forwards = <<0, 0>>
    /\ Last(chat_messages) = tool_messages_for_llm[2]

(***************************************************************************)
(* C10: when the connection a tool name resolves to has no live session at  *)
(* the time of the call, call_mcp_tool returns the "active session not      *)
(* found" error result, flags the step as an error and forwards nothing; a  *)
(* call is forwarded only to a connection whose session is live.            *)
(***************************************************************************)
C10_NoLiveSessionNoForward ==
    [][ tool_call_function =>
           LET tool_call == tool_calls[tool_i]
               c == resolve(mcp_tools, tool_call.name)
           IN  /\ (/\ json_loads(tool_call.arguments).ok
                   /\ c \in Connections
                   /\ c \notin mcp_sessions) =>
                      /\ current_step'.kind = "no_session"
                      /\ current_step'.returned = json_dumps_error(NoSessionMsg(c))
                      /\ current_step'.is_error
                      /\ Last(tool_messages_for_llm').content = current_step'.returned
                      /\ in_flight' = NoCall
                      /\ forwards' = forwards
                      /\ pc' # "calling"
               /\ pc' = "calling" =>
                      /\ in_flight'.conn \in mcp_sessions
                      /\ in_flight'.conn = c
      ]_vars

\* "search" was declared, its connection is still in the registry, but the
\* connection's session was gone when the call was made.
C10_Witness ==
    /\ current_step.kind = "no_session"
    /\ current_step.name \in declared
    /\ current_step.conn \in DictKeys(mcp_tools)
    /\ current_step.conn \notin mcp_sessions
    /\ tool_messages_for_llm[1].content = json_dumps_error(NoSessionMsg(current_step.conn))
    /\ forwards[1] = 0

(***************************************************************************)
(* C11: when the streaming request or the non-streaming request of a query  *)
(* fails, the user is shown an error, the turn is over at once (nothing is  *)
(* requested from the gateway and no tool is invoked until the user sends   *)
(* the next message), and the history is the one the failed query was       *)
(* given: no assistant or tool message is appended for it.                  *)
(***************************************************************************)
Elements(q) == {q[i] : i \in 1..Len(q)}

C11_GatewayFailureEndsTurn ==
    [][ /\ (\E e \in Exceptions : stream_fail(e) \/ final_fail(e)) =>
              /\ AssistantFailedMsg \in Elements(ui_out')
              /\ (~message_sent => \E e \in Exceptions : GeminiErrorMsg(e) \in Elements(ui_out'))
              /\ pc' = "idle"
              /\ chat_messages' = chat_messages
              /\ chat_messages' = api_args.messages
              /\ Last(chat_messages').role \in {"user", "tool"}
              /\ pc = "stream" => Len(requests) = 1
              /\ requests' = <<>>
              /\ in_flight' = NoCall
              /\ forwards' = forwards
              /\ queries' = queries
        /\ pc = "idle" =>
              /\ pc' \in {"idle", "query"}
              /\ requests' = <<>>
              /\ in_flight' = NoCall
              /\ queries' = queries
              /\ pc' = "query" => /\ Len(chat_messages') = Len(chat_messages) + 1
                                  /\ Last(chat_messages').role = "user"
      ]_vars

\* The second query of a turn failed before anything was streamed: both
\* errors were shown and the history ends with the first round's tool
\* messages.
C11_Witness ==
    /\ pc = "idle"
    /\ queries = 2
    /\ ui_out = <<GeminiErrorMsg("boom"), AssistantFailedMsg>>
    /\ Len(chat_messages) >= 5
    /\ Last(chat_messages).role = "tool"
    /\ Cardinality({k \in 1..Len(chat_messages) : chat_messages[k].role = "user"}) = 1

(***************************************************************************)
(* C12: the turn that starts from [system] with the user message "hello"    *)
(* and whose query returns the text "hi" without tool calls ends after that *)
(* one query with the history [system, user("hello"), assistant("hi")].     *)
(* In general the message the query returned is appended as it is; the turn *)
(* ends there exactly when it carries no tool calls; and a turn ends either *)
(* so, the assistant message being the last of the history, or by a failed  *)
(* query.                                                                   *)
(***************************************************************************)
Scenario1History ==
    << [role |-> "system", content |-> SystemPrompt, tool_calls |-> <<>>,
        tool_call_id |-> None],
       [role |-> "user", content |-> <<"hello">>, tool_calls |-> <<>>,
        tool_call_id |-> None],
       [role |-> "assistant", content |-> <<"hi">>, tool_calls |-> <<>>,
        tool_call_id |-> None] >>

C12_TurnEndsOnPlainAnswer ==
    [][ /\ \A m \in Responses : final_response(m) =>
              /\ chat_messages' = Append(chat_messages,
                                         [role |-> "assistant", content |-> m.content,
                                          tool_calls |-> m.tool_calls,
                                          tool_call_id |-> None])
              /\ pc' = "idle" <=> m.tool_calls = <<>>
              /\ (chat_messages = SubSeq(Scenario1History, 1, 2) /\ m = ResponseText) =>
                    /\ chat_messages' = Scenario1History
                    /\ pc' = "idle"
                    /\ queries' = 1
                    /\ Len(requests) = 2
        /\ (pc \notin {"init", "idle"} /\ pc' = "idle") =>
              \/ /\ pc = "final"
                 /\ Len(chat_messages') = Len(chat_messages) + 1
                 /\ Last(chat_messages').role = "assistant"
                 /\ Last(chat_messages').tool_calls = <<>>
              \/ /\ pc \in {"stream", "final"}
                 /\ chat_messages' = chat_messages
                 /\ AssistantFailedMsg \in Elements(ui_out')
      ]_vars

C12_Witness ==
    /\ pc = "idle"
    /\ chat_messages = Scenario1History
    /\ queries = 1
    /\ ui_out = <<>>

(***************************************************************************)
(* C13: start_chat makes the history the single system message; every later *)
(* step of the session, whatever turn it belongs to, leaves the history as  *)
(* it is or appends to it, the first element stays that system message and  *)
(* no other element is a system message.                                    *)
(***************************************************************************)
IsPrefix(p, q) == Len(p) <= Len(q) /\ SubSeq(q, 1, Len(p)) = p

C13_HistoryAppendOnly ==
    [][ /\ pc = "init" =>
              chat_messages' = << [role |-> "system", content |-> SystemPrompt,
                                   tool_calls |-> <<>>, tool_call_id |-> None] >>
        /\ pc # "init" =>
              /\ IsPrefix(chat_messages, chat_messages')
              /\ chat_messages'[1] = Scenario1History[1]
              /\ \A k \in 2..Len(chat_messages') : chat_messages'[k].role # "system"
      ]_vars

\* A turn answered in plain text, then a turn whose query failed: the second
\* user message stays in the history.
C13_Witness ==
    /\ pc = "idle"
    /\ chat_messages = Append(Scenario1History, Scenario1History[2])
    /\ AssistantFailedMsg \in Elements(ui_out)

(***************************************************************************)
(* C14: after any sequence of register and unregister events, the           *)
(* declarations format_mcp_tools_for_openai makes of the registry are, in   *)
(* order, one "function" entry per tool of each registered connection, the  *)
(* connections in the order their entries were created and each             *)
(* connection's tools in the order of its latest listing, with the name,    *)
(* description and schema the server listed; connections that have          *)
(* unregistered contribute nothing.                                         *)
(***************************************************************************)
LatestRegister(c) ==
    Max({i \in 1..Len(events) : events[i].op = "register" /\ events[i].conn = c})

\* The tool names the registered connections of S listed last, the
\* connections taken in the order their entries were created.
RECURSIVE ListedNames(_)
ListedNames(S) ==
    IF S = {} THEN <<>>
    ELSE LET c == CHOOSE x \in S : \A o \in S : EntryTime(x) <= EntryTime(o)
         IN  events[LatestRegister(c)].names \o ListedNames(S \ {c})

Declaration(n) ==
    [type |-> "function",
     function |-> [name |-> n, description |-> Description[n],
                   parameters |-> InputSchema[n]]]

\* The declarations before those of the k-th registry entry.
RECURSIVE Offset(_, _)
Offset(d, k) == IF k = 1 THEN 0 ELSE Offset(d, k - 1) + Len(d[k - 1].value)

C14_DeclarationsMirrorRegistry ==
    LET decl == format_mcp_tools_for_openai(mcp_tools)
        names == ListedNames({c \in Connections : EntryTime(c) > 0})
    IN  /\ Len(decl) = Len(names)
        /\ \A i \in 1..Len(decl) : decl[i] = Declaration(names[i])
        /\ Len(decl) = Offset(mcp_tools, Len(mcp_tools) + 1)
        /\ \A k \in 1..Len(mcp_tools) : \A j \in 1..Len(mcp_tools[k].value) :
              LET t == mcp_tools[k].value[j]
                  f == decl[Offset(mcp_tools, k) + j]
              IN  /\ f.type = "function"
                  /\ f.function.name = t.name
                  /\ f.function.description = t.description
                  /\ f.function.parameters = t.input_schema

\* A listed two tools, B listed two, A unregistered and registered again
\* with one tool: B's two declarations come first, then A's one.
C14_Witness ==
    /\ Len(events) = 4
    /\ events[3] = UnregisterEvent("A")
    /\ Registers(events[1], "A", "lookup")
    /\ format_mcp_tools_for_openai(mcp_tools)
          = <<Declaration("lookup"), Declaration("search"), Declaration("search")>>
    /\ [k \in 1..Len(mcp_tools) |-> mcp_tools[k].key] = <<"B", "A">>

(***************************************************************************)
(* C15: a call of the gateway issues the streaming request first, with the  *)
(* history and the declarations of the registry as they are then (the keys  *)
(* tools and tool_choice = "auto" present exactly when a tool is            *)
(* registered); when the stream is exhausted, whatever it carried, it       *)
(* issues the non-streaming request with the same arguments; the call       *)
(* returns an assistant message only after these two requests, and the      *)
(* message appended to the history is the one the second request returned,  *)
(* not the streamed text.                                                   *)
(***************************************************************************)
SameArguments(r1, r2) ==
    /\ r1.messages = r2.messages
    /\ r1.tools = r2.tools
    /\ r1.tool_choice = r2.tool_choice
    /\ r1.keys = r2.keys

C15_TwoRequestsPerQuery ==
    [][ /\ call_gemini_request =>
              /\ Len(requests') = 1
              /\ requests'[1].stream
              /\ requests'[1].messages = chat_messages
              /\ Len(requests'[1].tools) = Offset(mcp_tools, Len(mcp_tools) + 1)
              /\ \A k \in 1..Len(mcp_tools) : \A j \in 1..Len(mcp_tools[k].value) :
                    requests'[1].tools[Offset(mcp_tools, k) + j]
                       = Declaration(mcp_tools[k].value[j].name)
              /\ IF \E k \in 1..Len(mcp_tools) : mcp_tools[k].value # <<>>
                 THEN /\ {"tools", "tool_choice"} \subseteq requests'[1].keys
                      /\ requests'[1].tool_choice = "auto"
                 ELSE /\ requests'[1].keys \cap {"tools", "tool_choice"} = {}
                      /\ requests'[1].tools = <<>>
        /\ (pc = "stream" /\ pc' = "final") =>
              /\ Len(requests) = 1
              /\ Len(requests') = 2
              /\ requests'[1] = requests[1]
              /\ ~requests'[2].stream
              /\ SameArguments(requests'[1], requests'[2])
        /\ pc = "stream" => pc' \in {"stream", "final", "idle"}
        /\ (pc = "stream" /\ pc' = "idle") => chat_messages' = chat_messages
        /\ \A m \in Responses : final_response(m) =>
              /\ Len(requests) = 2
              /\ requests[1].stream /\ ~requests[2].stream
              /\ SameArguments(requests[1], requests[2])
              /\ requests[2].messages = chat_messages
              /\ Len(chat_messages') = Len(chat_messages) + 1
              /\ Last(chat_messages').role = "assistant"
              /\ Last(chat_messages').content = m.content
              /\ Last(chat_messages').tool_calls = m.tool_calls
              /\ streamed # m.content => Last(chat_messages').content # streamed
        /\ (Len(chat_messages') > Len(chat_messages)
              /\ Last(chat_messages').role = "assistant") =>
                 \E m \in Responses : final_response(m)
      ]_vars

\* Text was streamed and the registry changed under the call: the second
\* request still carries the declarations of the first.
C15_Witness ==
    /\ pc = "final"
    /\ Len(requests) = 2
    /\ message_sent
    /\ streamed = <<"hey">>
    /\ requests[2].tools = <<Declaration("search")>>
    /\ requests[2].tool_choice = "auto"
    /\ ~requests[2].stream
    /\ mcp_tools = <<>>

(***************************************************************************)
(* C16: every query declares the tools of the registry as it is when the    *)
(* query starts, also when the registry has changed since the turn's        *)
(* previous query; registry events during a query leave the query's         *)
(* arguments alone.                                                         *)
(***************************************************************************)
RegistryNames(d) ==
    UNION { {d[k].value[j].name : j \in 1..Len(d[k].value)} : k \in 1..Len(d) }

RegistryDeclarations(d) ==
    [i \in 1..Offset(d, Len(d) + 1) |->
        LET k == CHOOSE x \in 1..Len(d) :
                    Offset(d, x) < i /\ i <= Offset(d, x) + Len(d[x].value)
        IN  Declaration(d[k].value[i - Offset(d, k)].name)]

C16_DeclarationsPerQuery ==
    [][ /\ call_gemini_request =>
              /\ api_args'.tools = RegistryDeclarations(mcp_tools)
              /\ requests'[1].tools = RegistryDeclarations(mcp_tools)
              /\ declared' = RegistryNames(mcp_tools)
              /\ Last(chat_messages).role = "tool" => declared_before' = <<declared>>
        /\ mcp_tools' # mcp_tools => (api_args' = api_args /\ requests' = requests)
      ]_vars

\* The turn's first query declared "search" alone; A connected while the
\* round's tool call was handled; the second query declares A's tools too.
C16_Witness ==
    /\ pc = "stream"
    /\ declared_before = << {"search"} >>
    /\ declared = {"search", "lookup"}
    /\ api_args.tools = <<Declaration("search"), Declaration("search"), Declaration("lookup")>>
    /\ Last(api_args.messages).role = "tool"

(***************************************************************************)
(* C17: a turn has at most one operation under way.  Requests to the        *)
(* gateway are open only inside call_gemini and a forwarded tool call only  *)
(* inside call_mcp_tool, never both; the round's tool call i is taken up    *)
(* only when the gateway call has returned and the calls before i have      *)
(* their tool messages; the next query starts only when every call of the   *)
(* round has its message and these are in the history.                      *)
(***************************************************************************)
OneOperationInFlight ==
    /\ requests # <<>> <=> pc \in {"stream", "final"}
    /\ in_flight # NoCall <=> pc = "calling"
    /\ ~(requests # <<>> /\ in_flight # NoCall)
    /\ pc \in {"tools", "calling"} =>
          /\ tool_i \in 1..Len(tool_calls)
          /\ Len(tool_messages_for_llm) = tool_i - 1
          /\ \A j \in 1..(tool_i - 1) :
                tool_messages_for_llm[j].tool_call_id = tool_calls[j].id
          /\ \A j \in (tool_i + 1)..Len(tool_calls) : forwards[j] = 0
          /\ forwards[tool_i] = (IF pc = "calling" THEN 1 ELSE 0)
          /\ Last(chat_messages).role = "assistant"
          /\ Last(chat_messages).tool_calls = tool_calls
    /\ (pc = "query" /\ Last(chat_messages).role = "tool") =>
          /\ Len(tool_messages_for_llm) = Len(tool_calls)
          /\ SubSeq(chat_messages, Len(chat_messages) - Len(tool_calls) + 1,
                    Len(chat_messages)) = tool_messages_for_llm

C17_OneOperationAtATime ==
    [][ /\ OneOperationInFlight
        /\ OneOperationInFlight'
        /\ (tool_call_function \/ tool_call_unsupported) =>
              /\ requests = <<>>
              /\ in_flight = NoCall
              /\ Len(tool_messages_for_llm) = tool_i - 1
        /\ pc' = "calling" => pc \in {"tools", "calling"}
        /\ (pc' = "tools" /\ pc # "tools") => pc \in {"final", "calling"}
        /\ tool_i' # tool_i =>
              \/ call_gemini_request
              \/ pc = "final"
              \/ tool_i' = tool_i + 1 /\ Len(tool_messages_for_llm') = tool_i
                                      /\ in_flight' = NoCall
        /\ call_gemini_request =>
              /\ in_flight = NoCall
              /\ requests = <<>>
              /\ Len(tool_messages_for_llm) = Len(tool_calls)
      ]_vars

\* The first call of the round was forwarded and has returned; the second
\* call is about to be handled.
C17_Witness ==
    /\ pc = "tools"
    /\ tool_i = 2
    /\ forwards = <<1, 0>>
    /\ in_flight = NoCall
    /\ requests = <<>>
    /\ Len(tool_messages_for_llm) = 1
    /\ tool_messages_for_llm[1].content = str_result("42")

(***************************************************************************)
(* C18: for a tool call whose type is not "function" nothing is invoked:    *)
(* call_mcp_tool is not entered (no UI step, no parse, no resolution, no    *)
(* session lookup, no forwarded call); a tool message keyed by the call's   *)
(* id is built whose content is the error result "Unsupported tool type:    *)
(* <type>"; then the round's next call is handled or, after the last one,   *)
(* the round's messages are appended and the loop queries again.            *)
(***************************************************************************)
C18_UnsupportedTypeAnswered ==
    [][ /\ (pc = "tools" /\ tool_calls[tool_i].type # "function") =>
              /\ current_step' = current_step
              /\ in_flight' = NoCall
              /\ forwards' = forwards
              /\ pc' \in {"tools", "query"}
        /\ tool_call_unsupported =>
              LET tool_call == tool_calls[tool_i]
                  m == Last(tool_messages_for_llm')
              IN  /\ tool_call.type # "function"
                  /\ Len(tool_messages_for_llm') = Len(tool_messages_for_llm) + 1
                  /\ tool_messages_for_llm' = Append(tool_messages_for_llm, m)
                  /\ m.role = "tool"
                  /\ m.tool_call_id = tool_call.id
                  /\ IsErrorResult(m.content)
                  /\ ErrorField(m.content) = <<"Unsupported tool type: ", tool_call.type>>
                  /\ IF tool_i < Len(tool_calls)
                     THEN /\ pc' = "tools" /\ tool_i' = tool_i + 1
                          /\ chat_messages' = chat_messages
                     ELSE /\ pc' = "query"
                          /\ chat_messages' = chat_messages \o tool_messages_for_llm'
        /\ (pc = "tools" /\ (pc' # "tools" \/ tool_i' # tool_i)
              /\ tool_calls[tool_i].type # "function") => tool_call_unsupported
      ]_vars

\* The round's first call was of type "custom"; its error is in the history
\* the next query sends, keyed by the call's id.
C18_Witness ==
    /\ pc = "stream"
    /\ queries = 2
    /\ Len(api_args.messages) = 6
    /\ api_args.messages[4].role = "tool"
    /\ api_args.messages[4].tool_call_id = "c1"
    /\ api_args.messages[4].content = json_dumps_error(<<"Unsupported tool type: ", "custom">>)
    /\ api_args.messages[3].tool_calls[1].type = "custom"

(***************************************************************************)
(* C19: a successful on_mcp_connect for a connection makes the connection's *)
(* registry entry exactly the tools just listed, in the order listed (what  *)
(* the entry held before is gone), leaves the entries of the other          *)
(* connections and their places as they are, and registering the list just  *)
(* registered for the same connection again changes nothing.                *)
(***************************************************************************)
EntryOf(c, names) ==
    [i \in 1..Len(names) |->
        [name |-> names[i], description |-> Description[names[i]],
         input_schema |-> InputSchema[names[i]], mcp_connection_name |-> c]]

C19_RegisterReplaces ==
    [][ (Len(events') = Len(events) + 1 /\ Last(events').op = "register") =>
           LET c == Last(events').conn
               names == Last(events').names
               at == {i \in 1..Len(mcp_tools') : mcp_tools'[i].key = c}
           IN  /\ Cardinality(at) = 1
               /\ \A i \in at : mcp_tools'[i].value = EntryOf(c, names)
               /\ \A n \in AllNames :
                     c \in Owners(mcp_tools', n) <=> \E j \in 1..Len(names) : names[j] = n
               /\ \A i \in 1..Len(mcp_tools) :
                     mcp_tools[i].key # c => mcp_tools'[i] = mcp_tools[i]
               /\ Len(mcp_tools') = Len(mcp_tools)
                     + (IF \E i \in 1..Len(mcp_tools) : mcp_tools[i].key = c THEN 0 ELSE 1)
               /\ (events # <<>> /\ Last(events) = Last(events')) => mcp_tools' = mcp_tools
               /\ DictSet(mcp_tools', c, ToolsMetadata(c, ListToolsResult(names))) = mcp_tools'
      ]_vars

\* A registered "lookup", B registered, A registered "search" alone and then
\* the same list once more: A's entry holds "search" only and is still first.
C19_Witness ==
    /\ Len(events) = 4
    /\ events[1] = [op |-> "register", conn |-> "A", names |-> <<"lookup">>]
    /\ events[2].op = "register" /\ events[2].conn = "B"
    /\ events[3] = [op |-> "register", conn |-> "A", names |-> <<"search">>]
    /\ events[4] = events[3]
    /\ mcp_tools[1] = [key |-> "A", value |-> EntryOf("A", <<"search">>)]
    /\ Len(mcp_tools) = 2

(***************************************************************************)
(* C20: the loop counts no iterations.  A turn ends only by a failed query  *)
(* or by an assistant message without tool calls, and then at once; after a *)
(* round of tool calls the loop is back at the query, the history longer by *)
(* the assistant message and one tool message per call; and, every awaited  *)
(* operation completing, a turn under way always comes to its end or to the *)
(* bound this model puts on the session's queries, however many rounds it   *)
(* has made.                                                                *)
(***************************************************************************)
TurnActive == pc \notin {"init", "idle"}

LastUser(h) == Max({k \in 1..Len(h) : h[k].role = "user"})

\* The assistant messages of the turn under way.
RoundsInTurn(h) ==
    Cardinality({k \in (LastUser(h) + 1)..Len(h) : h[k].role = "assistant"})

C20_NoIterationCap ==
    /\ [][ /\ (TurnActive /\ pc' = "idle") =>
                 \/ /\ pc \in {"stream", "final"}
                    /\ chat_messages' = chat_messages
                    /\ AssistantFailedMsg \in Elements(ui_out')
                 \/ /\ pc = "final"
                    /\ Len(chat_messages') = Len(chat_messages) + 1
                    /\ Last(chat_messages').role = "assistant"
                    /\ Last(chat_messages').tool_calls = <<>>
           /\ (pc = "final" /\ pc' = "tools") =>
                 /\ Last(chat_messages').tool_calls # <<>>
                 /\ RoundsInTurn(chat_messages') = RoundsInTurn(chat_messages) + 1
           /\ (pc \in {"tools", "calling"} /\ pc' \notin {"tools", "calling"}) =>
                 /\ pc' = "query"
                 /\ Len(chat_messages') = Len(chat_messages) + Len(tool_calls)
                 /\ RoundsInTurn(chat_messages') >= 1
           /\ (pc = "query" /\ pc' # "query") =>
                 /\ pc' = "stream"
                 /\ queries' = queries + 1
         ]_vars
    /\ TurnActive ~> (pc = "idle" \/ (pc = "query" /\ queries = MaxQueries))

\* One turn, every query of it answered with tool calls: as many rounds as
\* the session's bound on queries, and the loop is at the query again.
C20_Witness ==
    /\ pc = "query"
    /\ queries = MaxQueries
    /\ LastUser(chat_messages) = 2
    /\ RoundsInTurn(chat_messages) = MaxQueries
    /\ Last(chat_messages).role = "tool"
    /\ Len(chat_messages) >= 2 + 3 * MaxQueries

(***************************************************************************)
(* C21 (as amended): nothing is tried twice.  A tool call of type           *)
(* "function" is forwarded once when, at the time it is handled, its        *)
(* arguments parse, a connection lists its name and the first such          *)
(* connection has a live session, and not at all otherwise; a tool call of  *)
(* another type is never forwarded; a forwarded call that raises is         *)
(* answered with its error and not forwarded again; a query issues one      *)
(* streaming request and at most one non-streaming request, and a failed    *)
(* request ends the turn.                                                   *)
(***************************************************************************)
\* The call's arguments parse, its name resolves, the connection is live.
Forwardable(tool_call) ==
    /\ json_loads(tool_call.arguments).ok
    /\ Owners(mcp_tools, tool_call.name) # {}
    /\ resolve(mcp_tools, tool_call.name) \in mcp_sessions

StreamingRequests(rs) == {i \in 1..Len(rs) : rs[i].stream}

C21_NothingRetried ==
    [][ /\ tool_call_function =>
              /\ forwards[tool_i] = 0
              /\ forwards'[tool_i] = (IF Forwardable(tool_calls[tool_i]) THEN 1 ELSE 0)
              /\ \A j \in 1..Len(forwards) : j # tool_i => forwards'[j] = forwards[j]
        /\ tool_call_unsupported =>
              /\ forwards[tool_i] = 0
              /\ forwards' = forwards
        /\ pc = "calling" =>
              /\ forwards[tool_i] = 1
              /\ forwards' = forwards
              /\ pc' # "calling" => Len(tool_messages_for_llm') = tool_i
        /\ \A j \in 1..Len(forwards') : forwards'[j] <= 1
        /\ Len(requests') <= 2
        /\ Cardinality(StreamingRequests(requests')) <= 1
        /\ Len(requests') - Cardinality(StreamingRequests(requests')) <= 1
        /\ queries' # queries => (pc = "query" /\ queries' = queries + 1)
        /\ (pc \in {"stream", "final"} /\ chat_messages' = chat_messages) =>
              pc' \in {pc, "final", "idle"}
      ]_vars

\* C21 as stated: every tool call, whatever its type, is forwarded once
\* exactly when its arguments parse, its name resolves and the connection
\* has a live session.
C21_Original ==
    [][ (tool_call_function \/ tool_call_unsupported) =>
           LET sent == IF pc' = "calling" THEN 1 ELSE 0
           IN  sent = 1 <=> Forwardable(tool_calls[tool_i])
      ]_vars

\* The first call of the round was forwarded once and raised; its error is
\* its tool message and the second call is in hand.
C21_Witness ==
    /\ pc = "tools"
    /\ tool_i = 2
    /\ forwards = <<1, 0>>
    /\ current_step.kind = "exec_error"
    /\ Len(tool_messages_for_llm) = 1
    /\ tool_messages_for_llm[1].content = json_dumps_error(ExecErrorMsg("search", "boom"))

(***************************************************************************)
(* C22: when session.list_tools() raises in on_mcp_connect for a            *)
(* connection, the registry stays exactly as it was (an entry the           *)
(* connection had keeps its tools and its place, a connection without an    *)
(* entry gets none), the user is shown "Failed to list tools from MCP       *)
(* server ...", and the handler returns: the session goes on as before.     *)
(***************************************************************************)
FailedListing(e) == [ok |-> FALSE, tools |-> <<>>, error |-> e]

C22_FailedListingKeepsRegistry ==
    [][ /\ \A c \in Connections : \A e \in Exceptions :
              on_mcp_connect(c, FailedListing(e)) =>
                  /\ mcp_tools' = mcp_tools
                  /\ \A n \in AllNames : Owners(mcp_tools', n) = Owners(mcp_tools, n)
                  /\ ui_out' = << <<"Failed to list tools from MCP server '", c, "': ", e>> >>
                  /\ pc' = pc
                  /\ chat_messages' = chat_messages
                  /\ mcp_sessions' = mcp_sessions
                  /\ events' = events
        /\ ui_out' # <<>> =>
              /\ mcp_tools' = mcp_tools
              /\ \E c \in Connections : \E e \in Exceptions :
                    on_mcp_connect(c, FailedListing(e))
      ]_vars

\* A is registered with two tools, B is not registered; the latest listing,
\* for a reconnect of A, failed: A's entry is as it was.
C22_Witness ==
    /\ ui_out = <<ListToolsFailedMsg("A", "boom")>>
    /\ Len(mcp_tools) = 1
    /\ mcp_tools[1].key = "A"
    /\ Len(mcp_tools[1].value) = 2
    /\ Len(events) = 3
    /\ events[3].op = "register" /\ events[3].conn = "A"

(***************************************************************************)
(* C23: the lookup stops at the first connection, in registry order, that   *)
(* lists the tool.  When two connections list the name and the first has no *)
(* live session, the call is answered with the "Active MCP session ... not  *)
(* found" error for the first and forwarded nowhere, also when the second   *)
(* has a live session; a call is forwarded only to the first connection     *)
(* listing its name, and only when that connection's session is live.       *)
(***************************************************************************)
\* The key of the first registry entry holding a tool of that name.
FirstOwner(d, n) ==
    d[Min({k \in 1..Len(d) : \E j \in 1..Len(d[k].value) : d[k].value[j].name = n})].key

C23_NoFallbackToSecondOwner ==
    [][ tool_call_function =>
           LET tool_call == tool_calls[tool_i]
               own == Owners(mcp_tools, tool_call.name)
           IN  /\ (/\ json_loads(tool_call.arguments).ok
                   /\ Cardinality(own) = 2
                   /\ FirstOwner(mcp_tools, tool_call.name) \notin mcp_sessions) =>
                      LET first == FirstOwner(mcp_tools, tool_call.name)
                      IN  /\ current_step'.kind = "no_session"
                          /\ current_step'.conn = first
                          /\ current_step'.is_error
                          /\ current_step'.returned
                                = json_dumps_error(<<"Active MCP session for connection '",
                                                     first, "' not found.">>)
                          /\ Len(tool_messages_for_llm') = Len(tool_messages_for_llm) + 1
                          /\ Last(tool_messages_for_llm').content = current_step'.returned
                          /\ Last(tool_messages_for_llm').tool_call_id = tool_call.id
                          /\ in_flight' = NoCall
                          /\ forwards' = forwards
                          /\ pc' # "calling"
               /\ pc' = "calling" =>
                      /\ own # {}
                      /\ in_flight'.conn = FirstOwner(mcp_tools, tool_call.name)
                      /\ in_flight'.conn \in mcp_sessions
                      /\ in_flight'.name = tool_call.name
      ]_vars

\* Both connections list "search"; the first in the registry has no live
\* session, the second has one; the call was answered with the error for
\* the first and not forwarded.
C23_Witness ==
    /\ current_step.kind = "no_session"
    /\ current_step.name = "search"
    /\ Len(mcp_tools) = 2
    /\ Owners(mcp_tools, "search") = {"A", "B"}
    /\ current_step.conn = mcp_tools[1].key
    /\ mcp_sessions = {mcp_tools[2].key}
    /\ tool_i = 2
    /\ forwards = <<0, 0>>
    /\ tool_messages_for_llm[1].content = json_dumps_error(NoSessionMsg(mcp_tools[1].key))

=============================================================================
